---- MODULE Spec2Model ----
(***************************************************************************)
(* Game Shelf test plan: the share-text parsers that the Playwright specs  *)
(* carry inline (tests/parsers.spec.ts, the battle-system "BT" tests,      *)
(* tests/regression.spec.ts) and the parseShareText / parseMultipleGames   *)
(* entry points of the application under test that the specs call.         *)
(*                                                                         *)
(* A text is a sequence of UTF-16 code units.  ASCII code units are the    *)
(* one-character strings; the non-ASCII code units carry a name:           *)
(*   "NBSP" U+00A0, "ZWSP" U+200B, "BLK" U+2B1B,                           *)
(*   "HI" 0xD83D, the high surrogate of every coloured square,             *)
(*   "LY" 0xDFE8, "LG" 0xDFE9, "LB" 0xDFE6, "LP" 0xDFEA, the low           *)
(*   surrogates of the yellow, green, blue and purple square,              *)
(*   "LS" 0xDFE1, "LC" 0xDD35, "LH" 0xDCA1, the low surrogates of the      *)
(*   yellow circle, the blue circle and the light bulb of Strands (their   *)
(*   high surrogate is "HI" too),                                          *)
(*   "HC" 0xD83C and "LT" 0xDF89, the party popper; "CJK" a Han character. *)
(***************************************************************************)
EXTENDS Integers, Sequences, FiniteSets, TLC

\* ------------------------------------------------------------------------
\* JavaScript values
\* ------------------------------------------------------------------------

\* A JavaScript number: an integer or NaN.
Num(v) == [nan |-> FALSE, val |-> v]
NaN == [nan |-> TRUE, val |-> 0]

\* a - b and a * b on JavaScript numbers: NaN is absorbing.
NumSub(a, b) == IF a.nan \/ b.nan THEN NaN ELSE Num(a.val - b.val)
NumMul(a, b) == IF a.nan \/ b.nan THEN NaN ELSE Num(a.val * b.val)
NumAdd(a, b) == IF a.nan \/ b.nan THEN NaN ELSE Num(a.val + b.val)

\* Math.max(a, b) on integers
Max(a, b) == IF a >= b THEN a ELSE b

Digits == {"0", "1", "2", "3", "4", "5", "6", "7", "8", "9"}

DigitVal(c) ==
    CASE c = "0" -> 0 [] c = "1" -> 1 [] c = "2" -> 2 [] c = "3" -> 3
      [] c = "4" -> 4 [] c = "5" -> 5 [] c = "6" -> 6 [] c = "7" -> 7
      [] c = "8" -> 8 [] c = "9" -> 9

\* The white space of ASCII only: without the no-break space.
WhiteSpaceAscii == {" ", "\t", "\n", "\r"}

\* The white space of \s and of String.prototype.trim: it has the
\* no-break space, it does not have the zero-width space.
WhiteSpace == {" ", "\t", "\n", "\r", "NBSP"}

\* Case folding of the /i flag and of toLowerCase, on the ASCII letters.
Fold(c) ==
    CASE c = "A" -> "a" [] c = "B" -> "b" [] c = "C" -> "c" [] c = "D" -> "d"
      [] c = "E" -> "e" [] c = "F" -> "f" [] c = "G" -> "g" [] c = "H" -> "h"
      [] c = "I" -> "i" [] c = "J" -> "j" [] c = "K" -> "k" [] c = "L" -> "l"
      [] c = "M" -> "m" [] c = "N" -> "n" [] c = "O" -> "o" [] c = "P" -> "p"
      [] c = "Q" -> "q" [] c = "R" -> "r" [] c = "S" -> "s" [] c = "T" -> "t"
      [] c = "U" -> "u" [] c = "V" -> "v" [] c = "W" -> "w" [] c = "X" -> "x"
      [] c = "Y" -> "y" [] c = "Z" -> "z"
      [] OTHER -> c

\* s.slice(from - 1, to) with 1-based inclusive bounds.
Slice(s, from, to) == IF to < from THEN <<>> ELSE SubSeq(s, from, to)

\* parseInt(s): the value of the longest prefix of decimal digits, NaN when
\* that prefix is empty.  (The strings it is given here never start with
\* white space or a sign.)
RECURSIVE DigitPrefixLen(_, _)
DigitPrefixLen(s, i) ==
    IF i <= Len(s) /\ s[i] \in Digits THEN DigitPrefixLen(s, i + 1) ELSE i - 1

RECURSIVE DecimalValue(_, _, _)
DecimalValue(s, n, acc) ==
    IF n = 0 THEN acc
    ELSE DecimalValue(Tail(s), n - 1, acc * 10 + DigitVal(Head(s)))

parseInt(s) ==
    LET n == DigitPrefixLen(s, 1)
    IN  IF n = 0 THEN NaN ELSE Num(DecimalValue(s, n, 0))

\* s.replace(c, ''): a string pattern replaces the FIRST occurrence only.
RECURSIVE replaceFirst(_, _)
replaceFirst(s, c) ==
    IF s = <<>> THEN <<>>
    ELSE IF Head(s) = c THEN Tail(s)
    ELSE <<Head(s)>> \o replaceFirst(Tail(s), c)

\* s.trim()
RECURSIVE trimStart(_)
trimStart(s) ==
    IF s # <<>> /\ Head(s) \in WhiteSpace THEN trimStart(Tail(s)) ELSE s

RECURSIVE trimEnd(_)
trimEnd(s) ==
    IF s # <<>> /\ s[Len(s)] \in WhiteSpace
    THEN trimEnd(SubSeq(s, 1, Len(s) - 1)) ELSE s

trim(s) == trimEnd(trimStart(s))

\* s.split('\n'): the pieces between the line feeds, in order.
split(s) ==
    LET nl == {i \in 1..Len(s) : s[i] = "\n"}
        nth(k) == CHOOSE p \in nl : Cardinality({q \in nl : q < p}) = k - 1
        n == Cardinality(nl)
    IN  [k \in 1..(n + 1) |->
            Slice(s, IF k = 1 THEN 1 ELSE nth(k - 1) + 1,
                     IF k = n + 1 THEN Len(s) ELSE nth(k) - 1)]

\* ------------------------------------------------------------------------
\* Regular expressions: a pattern is a sequence of items, each a character
\* class with a greedy quantifier {min, max} (max = -1: unbounded), or one
\* of the anchors ^ and $.  cap > 0 makes the item capture group cap.
\* Matching is the backtracking search of RegExp.prototype.exec.
\* ------------------------------------------------------------------------
Cls(set, lo, hi, g) == [kind |-> "cls", set |-> set, min |-> lo, max |-> hi, cap |-> g]
One(set)     == Cls(set, 1, 1, 0)
Opt(set)     == Cls(set, 0, 1, 0)
Star(set)    == Cls(set, 0, -1, 0)
Plus(set)    == Cls(set, 1, -1, 0)
Bol == [kind |-> "bol", set |-> {}, min |-> 0, max |-> 0, cap |-> 0]
Eol == [kind |-> "eol", set |-> {}, min |-> 0, max |-> 0, cap |-> 0]

NoCaps == [g \in 1..2 |-> <<0, -1>>]
Fail == [ok |-> FALSE, start |-> 0, end |-> 0, caps |-> NoCaps]

\* The code units of the texts, and the class of the dot: every code unit
\* but the line terminators.
Letters ==
    {"a", "b", "c", "d", "e", "f", "g", "h", "i", "j", "k", "l", "m", "n", "o",
     "p", "q", "r", "s", "t", "u", "v", "w", "x", "y", "z",
     "A", "B", "C", "D", "E", "F", "G", "H", "I", "J", "K", "L", "M", "N", "O",
     "P", "Q", "R", "S", "T", "U", "V", "W", "X", "Y", "Z"}
Punctuation ==
    {" ", "\t", ",", "/", "#", "*", "<", ">", ":", "!", ".", "-",
     "(", ")", "[", "]"}
NamedUnits ==
    {"NBSP", "ZWSP", "BLK", "HI", "LY", "LG", "LB", "LP", "LS", "LC", "LH",
     "HC", "LT", "CJK", "CHECK", "CROSS", "BALLOT", "TIMES", "RAQUO"}
Dot == Letters \cup Digits \cup Punctuation \cup NamedUnits

InClass(c, set, ci) == IF ci THEN Fold(c) \in set ELSE c \in set

\* The number of consecutive code units of the class from position pos,
\* at most limit (limit = -1: no limit).
RECURSIVE Run(_, _, _, _, _)
Run(text, pos, set, ci, limit) ==
    IF pos <= Len(text) /\ limit # 0 /\ InClass(text[pos], set, ci)
    THEN 1 + Run(text, pos + 1, set, ci, IF limit = -1 THEN -1 ELSE limit - 1)
    ELSE 0

RECURSIVE MatchFrom(_, _, _, _, _, _)
RECURSIVE TryCount(_, _, _, _, _, _, _)
MatchFrom(pat, k, text, pos, caps, ci) ==
    IF k > Len(pat) THEN [ok |-> TRUE, start |-> 0, end |-> pos, caps |-> caps]
    ELSE LET it == pat[k]
         IN  CASE it.kind = "bol" ->
                    IF pos = 1 THEN MatchFrom(pat, k + 1, text, pos, caps, ci)
                    ELSE Fail
               [] it.kind = "eol" ->
                    IF pos = Len(text) + 1
                    THEN MatchFrom(pat, k + 1, text, pos, caps, ci)
                    ELSE Fail
               [] OTHER ->
                    TryCount(pat, k, text, pos, caps, ci,
                             Run(text, pos, it.set, ci, it.max))

\* Greedy: the longest repetition first, then one less, down to min.
TryCount(pat, k, text, pos, caps, ci, n) ==
    IF n < pat[k].min THEN Fail
    ELSE LET caps2 == IF pat[k].cap > 0
                      THEN [caps EXCEPT ![pat[k].cap] = <<pos, pos + n - 1>>]
                      ELSE caps
             r == MatchFrom(pat, k + 1, text, pos + n, caps2, ci)
         IN  IF r.ok THEN r
             ELSE TryCount(pat, k, text, pos, caps, ci, n - 1)

\* The leftmost match at or after position i, as exec finds it.
Search(pat, text, i, ci) ==
    LET starts == {j \in i..(Len(text) + 1) :
                      MatchFrom(pat, 1, text, j, NoCaps, ci).ok}
    IN  IF starts = {} THEN Fail
        ELSE LET j == CHOOSE a \in starts : \A b \in starts : a <= b
             IN  [MatchFrom(pat, 1, text, j, NoCaps, ci) EXCEPT !.start = j]

\* text.match(regex) / regex.exec(text) from index `from`
ExecFrom(pat, text, from, ci) == Search(pat, text, from, ci)
Exec(pat, text, ci) == ExecFrom(pat, text, 1, ci)
\* regex.test(text)
Test(pat, text, ci) == Exec(pat, text, ci).ok
\* match[g]
Group(text, m, g) == Slice(text, m.caps[g][1], m.caps[g][2])

\* (text.match(regex) || []).length for a regex with the g flag: the number
\* of matches, each search starting where the previous match ended.
RECURSIVE matchAllLength(_, _, _, _)
matchAllLength(pat, text, from, ci) ==
    LET m == ExecFrom(pat, text, from, ci)
    IN  IF ~m.ok THEN 0 ELSE 1 + matchAllLength(pat, text, m.end, ci)

\* ------------------------------------------------------------------------
\* Wordle
\* ------------------------------------------------------------------------

\* The Wordle pattern anchored at the start of the text: /^Wordle.../i
WordleRegexAnchored ==
    << Bol,
       One({"w"}), One({"o"}), One({"r"}), One({"d"}), One({"l"}), One({"e"}),
       Plus(WhiteSpace),
       Cls(Digits \cup {","}, 1, -1, 1),
       Plus(WhiteSpace),
       Cls({"1", "2", "3", "4", "5", "6", "x"}, 1, 1, 2),
       One({"/"}), One({"6"}) >>

\* /Wordle\s+([\d,]+)\s+([1-6X])\/6/i
WordleRegex ==
    << One({"w"}), One({"o"}), One({"r"}), One({"d"}), One({"l"}), One({"e"}),
       Plus(WhiteSpace),
       Cls(Digits \cup {","}, 1, -1, 1),
       Plus(WhiteSpace),
       Cls({"1", "2", "3", "4", "5", "6", "x"}, 1, 1, 2),
       One({"/"}), One({"6"}) >>


\* ------------------------------------------------------------------------
\* Results.  A call either returns a value or throws; the value of a parse
\* is a result record or null.
\* ------------------------------------------------------------------------
Null == [gameId |-> "none"]
Returned(v) == [state |-> "returned", value |-> v]
Threw == [state |-> "threw"]
Idle == [state |-> "idle"]

\* The argument of a call: a string (its code units), or a value of another
\* type.
Str(chars) == [type |-> "string", chars |-> chars]

\* The Wordle score with a floor of 10: Math.max((7 - guesses) * 5, 10)
wordleScoreFloored(guesses) ==
    IF guesses = <<"X">> THEN Num(0)
    ELSE LET n == NumMul(NumSub(Num(7), parseInt(guesses)), Num(5))
         IN  IF n.nan THEN n ELSE Num(Max(n.val, 10))

\* (7 - parseInt(guesses)) * 5, with guesses === 'X' ? 0 in front of it
\* (parsers.spec.ts P-W1, P-W4; battle tests BT2).  The comparison with 'X'
\* is an exact string comparison.
wordleNumericScore(guesses) ==
    IF guesses = <<"X">> THEN Num(0)
    ELSE NumMul(NumSub(Num(7), parseInt(guesses)), Num(5))

\* won: guesses !== 'X'
wordleWon(guesses) == guesses # <<"X">>

\* The result built from a match of WordleRegex.
wordleExtract(match, text) ==
    LET guesses == Group(text, match, 2)
    IN  [gameId       |-> "wordle",
         puzzleNumber |-> parseInt(replaceFirst(Group(text, match, 1), ",")),
         rawScore     |-> guesses \o <<"/", "6">>,
         won          |-> wordleWon(guesses),
         numericScore |-> wordleNumericScore(guesses)]

\* text.match(regex) on a value: a string has the method, null and
\* undefined have no properties, a number has no match method.
stringMatch(arg, pat) ==
    IF arg.type = "string" THEN Returned(Exec(pat, arg.chars, TRUE)) ELSE Threw

\* The Wordle parser without the `if (match)` test: match[1] of the null
\* that a failed match returns throws.
wordleParseUnguarded(arg) ==
    LET m == stringMatch(arg, WordleRegex)
    IN  IF m.state = "threw" THEN Threw
        ELSE IF m.value.ok THEN Returned(wordleExtract(m.value, arg.chars))
        ELSE Threw

\* const match = text.match(regex); if (match) {...} return null;
wordleParse(arg) ==
    LET m == stringMatch(arg, WordleRegex)
    IN  IF m.state = "threw" THEN Threw
        ELSE IF m.value.ok THEN Returned(wordleExtract(m.value, arg.chars))
        ELSE Returned(Null)

\* ------------------------------------------------------------------------
\* Connections
\* ------------------------------------------------------------------------

\* The Connections pattern with a mandatory #:
\* /Connections\s*\n?\s*Puzzle\s*#(\d+)/i
ConnectionsRegexHash ==
    << One({"c"}), One({"o"}), One({"n"}), One({"n"}), One({"e"}), One({"c"}),
       One({"t"}), One({"i"}), One({"o"}), One({"n"}), One({"s"}),
       Star(WhiteSpace), Opt({"\n"}), Star(WhiteSpace),
       One({"p"}), One({"u"}), One({"z"}), One({"z"}), One({"l"}), One({"e"}),
       Star(WhiteSpace), One({"#"}),
       Cls(Digits, 1, -1, 1) >>

\* /Connections\s*\n?\s*Puzzle\s*#?(\d+)/i
ConnectionsRegex ==
    << One({"c"}), One({"o"}), One({"n"}), One({"n"}), One({"e"}), One({"c"}),
       One({"t"}), One({"i"}), One({"o"}), One({"n"}), One({"s"}),
       Star(WhiteSpace), Opt({"\n"}), Star(WhiteSpace),
       One({"p"}), One({"u"}), One({"z"}), One({"z"}), One({"l"}), One({"e"}),
       Star(WhiteSpace), Opt({"#"}),
       Cls(Digits, 1, -1, 1) >>

\* The code units of the class [🟨🟩🟦🟪] of a regular expression without
\* the u flag: the shared high surrogate and the four low surrogates.
SquareUnits == {"HI", "LY", "LG", "LB", "LP"}

\* The repetition count of the row rule, in code units.
RowWidth == 8

\* The row rule that counts squares, not code units: /^[🟨🟩🟦🟪]{4}$/
RowRegexFour == << Bol, Cls(SquareUnits, 4, 4, 0), Eol >>

\* /^[🟨🟩🟦🟪]{8}$/
RowRegex == << Bol, Cls(SquareUnits, RowWidth, RowWidth, 0), Eol >>

\* The row test on the line as it is, without trim().
isRowLineUntrimmed(l) == Test(RowRegex, l, FALSE)

\* l => /^[🟨🟩🟦🟪]{8}$/.test(l.trim())
isRowLine(l) == Test(RowRegex, trim(l), FALSE)

\* text.split('\n').filter(isRowLine)
connectionsLines(text) == SelectSeq(split(text), isRowLine)

\* A trimmed row line whose four squares have one colour.
isCleanRow(l) ==
    LET t == trim(l)
    IN  /\ Len(t) = 8
        /\ \A i \in {1, 3, 5, 7} : t[i] = "HI"
        /\ \A i \in {2, 4, 6, 8} : t[i] \in {"LY", "LG", "LB", "LP"} /\ t[i] = t[2]

\* The number of rows of the sequence that are not clean and come before
\* the row that completes the fourth category; every row that is not clean
\* when the game is never completed.
RECURSIVE mistakesBefore(_, _)
mistakesBefore(lines, clean) ==
    IF lines = <<>> \/ clean >= 4 THEN 0
    ELSE IF isCleanRow(Head(lines)) THEN mistakesBefore(Tail(lines), clean + 1)
    ELSE 1 + mistakesBefore(Tail(lines), clean)

\* isPerfect = (mistakes, solved) => solved && mistakes === 0
isPerfect(mistakes, solved) == solved /\ mistakes = 0

\* The result built from a match of ConnectionsRegex: puzzleNumber, the
\* row lines and perfect as the battle test BT3 computes them; won and
\* meta.mistakes, which no source file computes, as the specification
\* words them (four clean rows present; the rows that are not clean and
\* precede completion).
connectionsExtract(match, text) ==
    LET lines    == connectionsLines(text)
        perfect  == Len(lines) = 4
        solved   == Len(SelectSeq(lines, isCleanRow)) >= 4
        mistakes == mistakesBefore(lines, 0)
    IN  [gameId       |-> "connections",
         puzzleNumber |-> parseInt(Group(text, match, 1)),
         won          |-> solved,
         linesFound   |-> Len(lines),
         meta         |-> [perfect |-> perfect, mistakes |-> mistakes]]

connectionsParse(arg) ==
    LET m == stringMatch(arg, ConnectionsRegex)
    IN  IF m.state = "threw" THEN Threw
        ELSE IF m.value.ok THEN Returned(connectionsExtract(m.value, arg.chars))
        ELSE Returned(Null)


\* ------------------------------------------------------------------------
\* Strands
\* ------------------------------------------------------------------------

\* The Strands pattern with the keyword made optional: /(?:Strands\s*)?#(\d+)/i
StrandsRegexNoKeyword == << One({"#"}), Cls(Digits, 1, -1, 1) >>

\* /Strands\s*#?(\d+)/i
StrandsRegex ==
    << One({"s"}), One({"t"}), One({"r"}), One({"a"}), One({"n"}), One({"d"}),
       One({"s"}),
       Star(WhiteSpace), Opt({"#"}),
       Cls(Digits, 1, -1, 1) >>

\* /💡/ : the two code units of the light bulb
HintRegex == << One({"HI"}), One({"LH"}) >>

\* /🟡/ : the two code units of the yellow circle
SpangramRegex == << One({"HI"}), One({"LS"}) >>

\* The hint count of a pattern without the g flag: match() returns the first
\* match only, an array of length 1.
strandsHintsFirst(text) == IF Test(HintRegex, text, FALSE) THEN 1 ELSE 0

\* (text.match(/💡/g) || []).length
strandsHints(text) == matchAllLength(HintRegex, text, 1, FALSE)

\* The scoring without the floor: 20 - hints * 4
strandsScoreNoFloor(hints) ==
    IF hints = 0 THEN Num(30) ELSE Num(20 - hints * 4)

\* calculate(hints): if (hints === 0) return 30;
\*                   return Math.max(20 - hints * 4, 5);
strandsNumericScore(hints) ==
    IF hints = 0 THEN Num(30) ELSE Num(Max(20 - hints * 4, 5))

\* The result built from a match of StrandsRegex (P-S1, BT5), with the
\* score of P-S4; hints and perfect are the meta of the result.
strandsExtract(match, text) ==
    LET hints == strandsHints(text)
    IN  [gameId       |-> "strands",
         puzzleNumber |-> parseInt(Group(text, match, 1)),
         hasSpanagram |-> Test(SpangramRegex, text, FALSE),
         numericScore |-> strandsNumericScore(hints),
         meta         |-> [hints |-> hints, perfect |-> (hints = 0)]]

strandsParse(arg) ==
    LET m == stringMatch(arg, StrandsRegex)
    IN  IF m.state = "threw" THEN Threw
        ELSE IF m.value.ok THEN Returned(strandsExtract(m.value, arg.chars))
        ELSE Returned(Null)

\* ------------------------------------------------------------------------
\* Mini Crossword
\* ------------------------------------------------------------------------

\* The time pattern behind a greedy dot-star, as in /.*(\d+):(\d+)/ : the
\* dot-star leaves the minutes group one digit only.
TimeRegexGreedy ==
    << Star(Dot), Cls(Digits, 1, -1, 1), One({":"}), Cls(Digits, 1, -1, 2) >>

\* /(\d+):(\d+)/
TimeRegex == << Cls(Digits, 1, -1, 1), One({":"}), Cls(Digits, 1, -1, 2) >>

\* /Mini.*(\d+):(\d+)/i : the pattern that detects a Mini text
MiniRegex ==
    << One({"m"}), One({"i"}), One({"n"}), One({"i"}),
       Star(Dot), Cls(Digits, 1, -1, 1), One({":"}), Cls(Digits, 1, -1, 2) >>

\* The scoring without the floor: 35 - Math.floor(totalSecs / 10)
miniScoreNoFloor(totalSecs) == Num(35 - (totalSecs \div 10))

\* calculate(totalSecs): Math.max(35 - Math.floor(totalSecs / 10), 5)
miniNumericScore(totalSecs) == Num(Max(35 - (totalSecs \div 10), 5))

\* The Mini result with the score of the seconds part of the time alone.
miniExtractBySeconds(timeMatch, text) ==
    LET mins      == parseInt(Group(text, timeMatch, 1))
        secs      == parseInt(Group(text, timeMatch, 2))
        totalSecs == NumAdd(NumMul(mins, Num(60)), secs)
    IN  [gameId       |-> "mini",
         minutes      |-> mins,
         seconds      |-> secs,
         totalSeconds |-> totalSecs,
         numericScore |-> miniNumericScore(secs.val),
         meta         |-> [seconds |-> totalSecs]]

\* The result built from a match of TimeRegex (P-M1, BT4), with the score
\* of P-M3; the total of the seconds is the meta of the result.
miniExtract(timeMatch, text) ==
    LET mins      == parseInt(Group(text, timeMatch, 1))
        secs      == parseInt(Group(text, timeMatch, 2))
        totalSecs == NumAdd(NumMul(mins, Num(60)), secs)
    IN  [gameId       |-> "mini",
         minutes      |-> mins,
         seconds      |-> secs,
         totalSeconds |-> totalSecs,
         numericScore |-> miniNumericScore(totalSecs.val),
         meta         |-> [seconds |-> totalSecs]]

\* A text that MiniRegex detects gives the result of its first time.
miniParse(arg) ==
    LET m == stringMatch(arg, MiniRegex)
    IN  IF m.state = "threw" THEN Threw
        ELSE IF m.value.ok
             THEN Returned(miniExtract(Exec(TimeRegex, arg.chars, FALSE), arg.chars))
        ELSE Returned(Null)

\* ------------------------------------------------------------------------
\* Share texts.  A fixture describes a text by its parts; Spell gives the
\* code units of a part, and the text is the concatenation of the parts.
\* ------------------------------------------------------------------------
\* The code units of a part that is plain text.
Spell(tag) ==
    CASE tag = "" -> <<>>
      [] tag = " " -> <<" ">>
      [] tag = "  " -> <<" ", " ">>
      [] tag = "nbsp" -> <<"NBSP">>
      [] tag = "LF" -> <<"\n">>
      [] tag = "LFLF" -> <<"\n", "\n">>
      [] tag = " LF" -> <<" ", "\n">>
      [] tag = "CRLF" -> <<"\r", "\n">>
      [] tag = "Hi:LF" -> <<"H", "i", ":", "\n">>
      [] tag = "Wordle" -> <<"W", "o", "r", "d", "l", "e">>
      [] tag = "WORDLE" -> <<"W", "O", "R", "D", "L", "E">>
      [] tag = "wordle" -> <<"w", "o", "r", "d", "l", "e">>
      [] tag = "Word" -> <<"W", "o", "r", "d">>
      [] tag = "Worldle" -> <<"W", "o", "r", "l", "d", "l", "e">>
      [] tag = "WordleX" -> <<"W", "o", "r", "d", "l", "e", "X">>
      [] tag = "Connections" -> <<"C", "o", "n", "n", "e", "c", "t", "i", "o", "n", "s">>
      [] tag = "CONNECTIONS" -> <<"C", "O", "N", "N", "E", "C", "T", "I", "O", "N", "S">>
      [] tag = "connections" -> <<"c", "o", "n", "n", "e", "c", "t", "i", "o", "n", "s">>
      [] tag = "Connection" -> <<"C", "o", "n", "n", "e", "c", "t", "i", "o", "n">>
      [] tag = "Puzzle" -> <<"P", "u", "z", "z", "l", "e">>
      [] tag = "#" -> <<"#">>
      [] tag = "1" -> <<"1">>
      [] tag = "123" -> <<"1", "2", "3">>
      [] tag = "567" -> <<"5", "6", "7">>
      [] tag = "1,234" -> <<"1", ",", "2", "3", "4">>
      [] tag = "12,345" -> <<"1", "2", ",", "3", "4", "5">>
      [] tag = "999999" -> <<"9", "9", "9", "9", "9", "9">>
      [] tag = "999,999" -> <<"9", "9", "9", ",", "9", "9", "9">>
      [] tag = "1,234,567" -> <<"1", ",", "2", "3", "4", ",", "5", "6", "7">>
      [] tag = "abc" -> <<"a", "b", "c">>
      [] tag = "," -> <<",">>
      [] tag = "1/6" -> <<"1", "/", "6">>
      [] tag = "2/6" -> <<"2", "/", "6">>
      [] tag = "3/6" -> <<"3", "/", "6">>
      [] tag = "4/6" -> <<"4", "/", "6">>
      [] tag = "5/6" -> <<"5", "/", "6">>
      [] tag = "6/6" -> <<"6", "/", "6">>
      [] tag = "X/6" -> <<"X", "/", "6">>
      [] tag = "x/6" -> <<"x", "/", "6">>
      [] tag = "0/6" -> <<"0", "/", "6">>
      [] tag = "7/6" -> <<"7", "/", "6">>
      [] tag = "3/5" -> <<"3", "/", "5">>
      [] tag = "3/60" -> <<"3", "/", "6", "0">>
      [] tag = "4/6*" -> <<"4", "/", "6", "*">>
      [] tag = "<script>" -> <<"<", "s", "c", "r", "i", "p", "t", ">">>
      [] tag = "zwsp" -> <<"ZWSP">>
      [] tag = " #NYT" -> <<" ", "#", "N", "Y", "T">>
      [] tag = "LF#123" -> <<"\n", "#", "1", "2", "3">>
      [] tag = "#123" -> <<"#", "1", "2", "3">>
      [] tag = "Wordle is fun" -> <<"W", "o", "r", "d", "l", "e", " ", "i", "s", " ", "f", "u", "n">>
      [] tag = "   " -> <<" ", " ", " ">>
      [] tag = "Strands" -> <<"S", "t", "r", "a", "n", "d", "s">>
      [] tag = "STRANDS" -> <<"S", "T", "R", "A", "N", "D", "S">>
      [] tag = "strands" -> <<"s", "t", "r", "a", "n", "d", "s">>
      [] tag = "Strand" -> <<"S", "t", "r", "a", "n", "d">>
      [] tag = "890" -> <<"8", "9", "0">>
      [] tag = "I solved the " -> <<"I", " ", "s", "o", "l", "v", "e", "d",
            " ", "t", "h", "e", " ">>
      [] tag = "1/17/2026 New York Times " -> <<"1", "/", "1", "7", "/", "2",
            "0", "2", "6", " ", "N", "e", "w", " ", "Y", "o", "r", "k", " ",
            "T", "i", "m", "e", "s", " ">>
      [] tag = "Mini Crossword in " -> <<"M", "i", "n", "i", " ", "C", "r",
            "o", "s", "s", "w", "o", "r", "d", " ", "i", "n", " ">>
      [] tag = "Mini Crossword " -> <<"M", "i", "n", "i", " ", "C", "r", "o",
            "s", "s", "w", "o", "r", "d", " ">>
      [] tag = "!" -> <<"!">>
      [] tag = "LF#Wordle #NYT" -> <<"\n", "#", "W", "o", "r", "d", "l", "e",
            " ", "#", "N", "Y", "T">>
      [] tag = "3/6 - just numbers" -> <<"3", "/", "6", " ", "-", " ", "j",
            "u", "s", "t", " ", "n", "u", "m", "b", "e", "r", "s">>
      [] tag = "0:15" -> <<"0", ":", "1", "5">>
      [] tag = " emoji" -> <<" ", "HC", "LT">>
      [] tag = " cjk" -> <<" ", "CJK", "CJK">>

\* The code units of n black squares (U+2B1B, one code unit each).
RECURSIVE Blacks(_)
Blacks(n) == IF n = 0 THEN <<>> ELSE <<"BLK">> \o Blacks(n - 1)

\* The code units of one coloured square: a surrogate pair.
Square(colour) ==
    CASE colour = "Y" -> <<"HI", "LY">> [] colour = "G" -> <<"HI", "LG">>
      [] colour = "B" -> <<"HI", "LB">> [] colour = "P" -> <<"HI", "LP">>

RECURSIVE Squares(_)
Squares(colours) ==
    IF colours = <<>> THEN <<>>
    ELSE Square(Head(colours)) \o Squares(Tail(colours))

\* The colours of a grid row of each kind: the four clean rows, two rows
\* that mix colours, a row of three and a row of five squares.
RowColours(kind) ==
    CASE kind = "Y"  -> <<"Y", "Y", "Y", "Y">>
      [] kind = "G"  -> <<"G", "G", "G", "G">>
      [] kind = "B"  -> <<"B", "B", "B", "B">>
      [] kind = "P"  -> <<"P", "P", "P", "P">>
      [] kind = "M1" -> <<"Y", "G", "Y", "Y">>
      [] kind = "M2" -> <<"Y", "Y", "Y", "G">>
      [] kind = "S3" -> <<"Y", "Y", "Y">>
      [] kind = "L5" -> <<"G", "G", "G", "G", "G">>

CleanKinds == {"Y", "G", "B", "P"}

\* The symbols of a Strands body: the light bulb of a hint, the yellow
\* circle of the spangram, the blue circle of a theme word.
Bulb == <<"HI", "LH">>
YellowCircle == <<"HI", "LS">>
BlueCircle == <<"HI", "LC">>

RECURSIVE Repeat(_, _)
Repeat(units, n) == IF n = 0 THEN <<>> ELSE units \o Repeat(units, n - 1)

\* The body of a Strands text with n hints: the bulbs in front of the rest
\* ("lead"), one bulb in front of every line ("lines"), the bulbs between
\* the circles ("spread").
StrandsBody(n, layout) ==
    CASE layout = "lead" ->
            <<"\n">> \o Repeat(Bulb, n) \o BlueCircle \o BlueCircle
            \o <<"\n">> \o YellowCircle \o BlueCircle
      [] layout = "lines" ->
            Repeat(<<"\n">> \o Bulb \o BlueCircle \o BlueCircle, n)
            \o <<"\n">> \o YellowCircle \o BlueCircle \o BlueCircle
      [] layout = "spread" ->
            <<"\n">> \o YellowCircle \o Repeat(BlueCircle \o Bulb, n)

\* String(n) and String(n).padStart(2, '0') of a natural number
DigitChar(d) ==
    CASE d = 0 -> "0" [] d = 1 -> "1" [] d = 2 -> "2" [] d = 3 -> "3"
      [] d = 4 -> "4" [] d = 5 -> "5" [] d = 6 -> "6" [] d = 7 -> "7"
      [] d = 8 -> "8" [] d = 9 -> "9"

RECURSIVE Decimal(_)
Decimal(n) ==
    IF n < 10 THEN <<DigitChar(n)>>
    ELSE Decimal(n \div 10) \o <<DigitChar(n % 10)>>

padStart2(n) == IF n < 10 THEN <<"0">> \o Decimal(n) ELSE Decimal(n)

\* The grid: every row on a line of its own, after the line ending eol,
\* between the padding pad.
RECURSIVE Grid(_, _, _)
Grid(rows, eol, pad) ==
    IF rows = <<>> THEN <<>>
    ELSE eol \o pad \o Squares(RowColours(Head(rows))) \o pad
         \o Grid(Tail(rows), eol, pad)


\* ------------------------------------------------------------------------
\* The parsers in registration order, and the two entry points
\* ------------------------------------------------------------------------

\* The registration order reversed.
PARSERSReversed == <<"mini", "strands", "connections", "wordle">>

\* The registration order: the Wordle pattern first, then the Connections,
\* the Strands and the Mini pattern.
PARSERS == <<"wordle", "connections", "strands", "mini">>

parserRegex(id) ==
    CASE id = "wordle" -> WordleRegex
      [] id = "connections" -> ConnectionsRegex
      [] id = "strands" -> StrandsRegex
      [] id = "mini" -> MiniRegex

parserParse(id, arg) ==
    CASE id = "wordle" -> wordleParse(arg)
      [] id = "connections" -> connectionsParse(arg)
      [] id = "strands" -> strandsParse(arg)
      [] id = "mini" -> miniParse(arg)

\* The first parser of the list whose pattern matches builds the result.
RECURSIVE runParsers(_, _)
runParsers(ps, arg) ==
    IF ps = <<>> THEN Returned(Null)
    ELSE LET r == parserParse(Head(ps), arg)
         IN  IF r.state = "threw" THEN Threw
             ELSE IF r.value.gameId # "none" THEN r
             ELSE runParsers(Tail(ps), arg)

\* parseShareText(text): a value that is not a string is no match.
parseShareText(arg) ==
    IF arg.type # "string" THEN Returned(Null) ELSE runParsers(PARSERS, arg)

\* Every match of one pattern in the text, from left to right, each search
\* starting where the previous match ended.
RECURSIVE matchesOf(_, _, _)
matchesOf(id, text, from) ==
    LET m == ExecFrom(parserRegex(id), text, from, TRUE)
    IN  IF ~m.ok THEN <<>>
        ELSE <<[id |-> id, start |-> m.start, end |-> m.end]>>
             \o matchesOf(id, text, m.end)

RECURSIVE allMatches(_, _)
allMatches(ps, text) ==
    IF ps = <<>> THEN <<>>
    ELSE matchesOf(Head(ps), text, 1) \o allMatches(Tail(ps), text)

\* The matches in the order of their position in the text; a match that
\* starts inside the previous one is dropped.
RECURSIVE byPosition(_, _)
byPosition(ms, from) ==
    LET later == {i \in 1..Len(ms) : ms[i].start >= from}
    IN  IF later = {} THEN <<>>
        ELSE LET i == CHOOSE j \in later : \A k \in later :
                          \/ ms[j].start < ms[k].start
                          \/ (ms[j].start = ms[k].start /\ j <= k)
             IN  <<ms[i]>> \o byPosition(ms, ms[i].end)

\* The result of every block: a block runs from the start of its match to
\* the start of the next one.
RECURSIVE blockResults(_, _, _)
blockResults(ms, k, text) ==
    IF k > Len(ms) THEN <<>>
    ELSE LET last  == IF k = Len(ms) THEN Len(text) ELSE ms[k + 1].start - 1
             block == Slice(text, ms[k].start, last)
         IN  <<parserParse(ms[k].id, Str(block)).value>>
             \o blockResults(ms, k + 1, text)

\* parseMultipleGames(text)
parseMultipleGames(arg) ==
    IF arg.type # "string" THEN Returned(<<>>)
    ELSE Returned(blockResults(byPosition(allMatches(PARSERS, arg.chars), 1),
                               1, arg.chars))

\* ------------------------------------------------------------------------
\* The texts that are parsed
\* ------------------------------------------------------------------------

\* The largest number of rows of a Connections grid.
MaxRows == 5
\* The largest number of game blocks in one text.
MaxBlocks == 2
\* The length of the long tail of black squares.
LongLen == 24
\* The largest number of hints of a Strands text.
MaxHints == 6
\* The largest total of seconds that the scoring of the Mini is compared on.
MaxSeconds == 400

SeqUpTo(S, n) == UNION {[1..k -> S] : k \in 0..n}

\* A Wordle grid row: 🟩🟩🟩🟩🟩
WordleGridRow == Squares(<<"G", "G", "G", "G", "G">>)

\* What follows the header of a Wordle text.
Suffix(tag) ==
    CASE tag = "grid" -> <<"\n", "\n", "BLK">> \o WordleGridRow \o <<"\n">> \o WordleGridRow
      [] tag = "crlf" -> <<"\r", "\n", "\r", "\n">> \o WordleGridRow
      [] tag = "long" -> <<"\n">> \o Blacks(LongLen)
      [] OTHER -> Spell(tag)

WordleHeaderFixtures ==
    [kind : {"wordle"},
     pre : {"", "  ", "LFLF", "Hi:LF"},
     kw : {"Wordle", "WORDLE", "wordle", "Word", "Worldle", "WordleX"},
     sep1 : {" ", "  ", "nbsp", ""},
     num : {"1,234", ""},
     sep2 : {" ", ""},
     score : {"3/6", "X/6"},
     suf : {""}]

WordleScoreFixtures ==
    [kind : {"wordle"},
     pre : {""},
     kw : {"Wordle"},
     sep1 : {" "},
     num : {"1", "123", "1,234", "12,345", "999999", "999,999", "1,234,567",
            "abc", ""},
     sep2 : {" "},
     score : {"1/6", "2/6", "3/6", "4/6", "5/6", "6/6", "X/6", "x/6",
              "0/6", "7/6", "3/5", "3/60", "4/6*", ""},
     suf : {"", "grid", "crlf", "long", "<script>", "zwsp", " #NYT"}]

\* A puzzle token of commas only.
WordleCommaFixtures ==
    [kind : {"wordle"},
     pre : {""}, kw : {"Wordle"}, sep1 : {" "},
     num : {","},
     sep2 : {" "}, score : {"3/6"}, suf : {"", "grid"}]

\* Noise around a valid header.
WordleNoiseFixtures ==
    [kind : {"wordle"},
     pre : {"", "  "},
     kw : {"wordle"},
     sep1 : {"nbsp"},
     num : {"1,234"},
     sep2 : {"nbsp", "  "},
     score : {"3/6", "X/6", "4/6*"},
     suf : {"  ", "LFLF", " emoji", " cjk", "LF#Wordle #NYT"}]

WordleText(f) ==
    Spell(f.pre) \o Spell(f.kw) \o Spell(f.sep1) \o Spell(f.num)
    \o Spell(f.sep2) \o Spell(f.score) \o Suffix(f.suf)

ConnectionsGridFixtures ==
    [kind : {"connections"},
     kw : {"Connections"}, gap : {" LF"}, hash : {"#"}, num : {"567"},
     rows : SeqUpTo({"Y", "P", "M1"}, MaxRows),
     eol : {"LF"}, pad : {""}, tail : {""}]

ConnectionsHeaderFixtures ==
    [kind : {"connections"},
     kw : {"Connections", "CONNECTIONS", "connections", "Connection"},
     gap : {" ", "  ", "LF", "LFLF", " LF", ""},
     hash : {"#", ""},
     num : {"123"},
     rows : {<<>>, <<"Y", "G", "B", "P">>},
     eol : {"LF"}, pad : {""}, tail : {""}]

ConnectionsFormatFixtures ==
    [kind : {"connections"},
     kw : {"Connections"}, gap : {"LF"}, hash : {"#"}, num : {"123"},
     rows : {<<>>, <<"Y", "G", "B", "P">>, <<"P", "B", "G", "Y">>,
             <<"M2", "Y", "G", "B", "P">>, <<"Y", "G">>,
             <<"M1", "M1", "M1", "Y">>, <<"M1", "M2", "M1", "M2">>,
             <<"S3", "L5", "Y">>},
     eol : {"LF", "CRLF"},
     pad : {"", "  "},
     tail : {"", "LF#123"}]

ConnectionsText(f) ==
    Spell(f.kw) \o Spell(f.gap) \o Spell("Puzzle") \o Spell(" ") \o Spell(f.hash)
    \o Spell(f.num) \o Grid(f.rows, Spell(f.eol), Spell(f.pad)) \o Spell(f.tail)

StrandsHeaderFixtures ==
    [kind : {"strands"},
     kw : {"Strands", "STRANDS", "strands", "Strand"},
     gap : {" ", "", "LF"},
     hash : {"#", ""},
     num : {"123", "890"},
     hints : {0, 1},
     layout : {"lead"}]

StrandsHintFixtures ==
    [kind : {"strands"},
     kw : {"Strands"}, gap : {" "}, hash : {"#"}, num : {"123"},
     hints : 0..MaxHints,
     layout : {"lead", "lines", "spread"}]

StrandsText(f) ==
    Spell(f.kw) \o Spell(f.gap) \o Spell(f.hash) \o Spell(f.num)
    \o StrandsBody(f.hints, f.layout)

\* The prose in front of the time of a Mini text.
MiniProse(pre) ==
    CASE pre = "nyt" -> Spell("I solved the ") \o Spell("1/17/2026 New York Times ")
                        \o Spell("Mini Crossword in ")
      [] pre = "plain" -> Spell("I solved the ") \o Spell("Mini Crossword in ")
      [] pre = "short" -> Spell("Mini Crossword ")
      [] pre = "bare" -> <<>>

MiniFixtures ==
    [kind : {"mini"},
     pre : {"nyt", "plain", "short", "bare"},
     min : {0, 1, 2, 4, 5, 10, 15},
     sec : {0, 5, 15, 23, 28, 30, 45, 59},
     post : {"!"}]

\* `${mins}:${secs.toString().padStart(2, '0')}` inside the prose
MiniText(f) ==
    MiniProse(f.pre) \o Decimal(f.min) \o <<":">> \o padStart2(f.sec)
    \o (IF f.pre \in {"nyt", "plain"} THEN Spell(f.post) ELSE <<>>)

\* The blocks of a text that holds several games.
BlockText(b) ==
    CASE b = "W" -> Spell("Wordle") \o Spell(" ") \o Spell("1,234") \o Spell(" ")
                    \o Spell("3/6") \o <<"\n", "BLK">> \o WordleGridRow
      [] b = "C" -> Spell("Connections") \o Spell(" ") \o Spell("Puzzle")
                    \o Spell(" ") \o Spell("#") \o Spell("567")
                    \o Grid(<<"Y", "G", "B", "P">>, <<"\n">>, <<>>)

RECURSIVE BlocksText(_)
BlocksText(bs) ==
    IF bs = <<>> THEN <<>>
    ELSE BlockText(Head(bs)) \o <<"\n", "\n">> \o BlocksText(Tail(bs))

MultiFixtures ==
    [kind : {"multi"}, intro : {"", "Hi:LF"}, blocks : SeqUpTo({"W", "C"}, MaxBlocks)]

MultiText(f) == Spell(f.intro) \o BlocksText(f.blocks)

\* Arguments that are no share text at all.
OddFixtures ==
    [kind : {"odd"},
     what : {"null", "undefined", "number", "", "   ", "<script>", "long",
             "3/6", "#123", "row", "Wordle is fun", "hints",
             "3/6 - just numbers", "0:15"}]

OddArg(f) ==
    CASE f.what \in {"null", "undefined", "number"} -> [type |-> f.what]
      [] f.what = "long" -> Str(Blacks(LongLen))
      [] f.what = "row" -> Str(Squares(RowColours("Y")))
      [] f.what = "hints" -> Str(Repeat(Bulb, 3))
      [] OTHER -> Str(Spell(f.what))

Fixtures ==
    WordleHeaderFixtures \cup WordleScoreFixtures \cup WordleCommaFixtures
    \cup WordleNoiseFixtures \cup ConnectionsGridFixtures
    \cup ConnectionsHeaderFixtures \cup ConnectionsFormatFixtures
    \cup StrandsHeaderFixtures \cup StrandsHintFixtures \cup MiniFixtures
    \cup MultiFixtures \cup OddFixtures

ArgOf(f) ==
    CASE f.kind = "wordle" -> Str(WordleText(f))
      [] f.kind = "connections" -> Str(ConnectionsText(f))
      [] f.kind = "strands" -> Str(StrandsText(f))
      [] f.kind = "mini" -> Str(MiniText(f))
      [] f.kind = "multi" -> Str(MultiText(f))
      [] f.kind = "odd" -> OddArg(f)

\* ------------------------------------------------------------------------
\* The state machine: a text is handed to the two entry points.
\* ------------------------------------------------------------------------
\* The test server (server.js) and the runner page (playwright-runner.js).
VARIABLES
    currentRun,       \* server.js: let currentRun
    sseClients,       \* server.js: let sseClients
    playwright,       \* the runs whose spawned Playwright process is alive
    timers,           \* the pending setTimeout callbacks: seconds left, run
    serverUp,         \* FALSE once a handler threw an uncaught TypeError
    nextRunId,        \* the number of runs created so far
    playwrightState,  \* playwright-runner.js: playwrightState
    disabled,         \* the disabled attribute of the Run and Stop buttons
    inbox,            \* the events written to the page, not yet handled
    sent,             \* history: the events broadcast since run-started
    last,             \* history: the handler of the server that ran last
    used              \* the runs, stops, chunks and connections so far

svars == <<currentRun, sseClients, playwright, timers, serverUp, nextRunId,
           playwrightState, disabled, inbox, sent, last, used>>

\* let currentRun = null
NoRun ==
    [id |-> 0, status |-> "null", results |-> <<>>,
     passed |-> 0, failed |-> 0, skipped |-> 0]

NoHandler ==
    [kind |-> "none", proc |-> 0, cur |-> 0, status |-> "null", code |-> 0,
     lines |-> 0, added |-> 0, threw |-> FALSE]

\* The state of the server after app.listen and of the page after the
\* section was injected: no run, no client, all buttons disabled.
ServerStart ==
    /\ currentRun = NoRun
    /\ sseClients = {}
    /\ playwright = {}
    /\ timers = {}
    /\ serverUp = TRUE
    /\ nextRunId = 0
    /\ playwrightState = [connected |-> FALSE, running |-> FALSE]
    /\ disabled = [run |-> TRUE, stop |-> TRUE]
    /\ inbox = <<>>
    /\ sent = << >>
    /\ last = NoHandler
    /\ used = 0

VARIABLES
    fixture,    \* the description of the argument
    arg,        \* the argument of the calls
    one,        \* the outcome of the last parseShareText(arg)
    prev,       \* the outcome of the parseShareText(arg) before the last
    all         \* the outcome of the last parseMultipleGames(arg)

vars == <<fixture, arg, one, prev, all>>

Init ==
    /\ fixture \in Fixtures
    /\ arg = ArgOf(fixture)
    /\ one = Idle
    /\ prev = Idle
    /\ all = Idle
    /\ ServerStart

\* parseShareText behind a pattern object with the g flag that is tested
\* with test(): lastIndex stays behind the match, and the next test of the
\* same text starts there and fails.
ParseOneSticky ==
    /\ prev.state = "idle"
    /\ one' = (IF one.state = "returned" /\ one.value # Null
               THEN Returned(Null) ELSE parseShareText(arg))
    /\ prev' = one
    /\ UNCHANGED <<fixture, arg, all>>
    /\ UNCHANGED svars

\* A call of parseShareText on the text; the text is parsed a second time
\* after the first.
ParseOne ==
    /\ prev.state = "idle"
    /\ one' = parseShareText(arg)
    /\ prev' = one
    /\ UNCHANGED <<fixture, arg, all>>
    /\ UNCHANGED svars

ParseAll ==
    /\ all.state = "idle"
    /\ all' = parseMultipleGames(arg)
    /\ UNCHANGED <<fixture, arg, one, prev>>
    /\ UNCHANGED svars

Next == ParseOne \/ ParseAll

Spec == Init /\ [][Next]_vars


\* ------------------------------------------------------------------------
\* Properties
\* ------------------------------------------------------------------------

OneReturned == one.state = "returned"
AllReturned == all.state = "returned"
IsGame(id) == OneReturned /\ one.value.gameId = id

GameIds == {"wordle", "connections", "strands", "mini"}

\* C1: parseShareText and parseMultipleGames never throw, whatever the
\* argument: a call returns a result record or null (parseShareText), a
\* list of result records (parseMultipleGames); an argument that is not a
\* string, the empty string, a blank string, markup and a long string of
\* squares give null and the empty list.
C1_Total ==
    /\ one.state # "threw"
    /\ all.state # "threw"
    /\ OneReturned => one.value.gameId \in GameIds \cup {"none"}
    /\ AllReturned => \A i \in DOMAIN all.value : all.value[i].gameId \in GameIds
    /\ fixture.kind = "odd" =>
          /\ OneReturned => one.value = Null
          /\ AllReturned => all.value = <<>>

C1_Witness ==
    /\ fixture.kind = "odd"
    /\ fixture.what = "null"
    /\ OneReturned
    /\ AllReturned

\* The guess token of a Wordle result: the first code unit of rawScore.
GuessOf(r) == r.rawScore[1]

\* C2: a Wordle result has numericScore (7 - g) * 5 for the guess digit g
\* in 1..6 and 0 for the fail marker, always one of 0, 5, ..., 30.
C2_WordleScore ==
    IsGame("wordle") =>
        LET g == GuessOf(one.value)
        IN  /\ ~one.value.numericScore.nan
            /\ one.value.numericScore.val \in {0, 5, 10, 15, 20, 25, 30}
            /\ one.value.numericScore.val =
                  (IF g \in {"1", "2", "3", "4", "5", "6"}
                   THEN (7 - DigitVal(g)) * 5 ELSE 0)

\* C3: the fail marker is accepted in both cases, and a Wordle result whose
\* guess token is X or x has won = false and numericScore = 0; one whose
\* guess token is a digit has won = true and numericScore >= 5.
C3_FailMarker ==
    /\ ( /\ fixture.kind = "wordle" /\ OneReturned
         /\ fixture.kw \in {"Wordle", "WORDLE", "wordle"}
         /\ fixture.sep1 # "" /\ fixture.sep2 # ""
         /\ fixture.num \in {"1", "123", "1,234", "12,345", "999999", "999,999"}
         /\ fixture.score \in {"X/6", "x/6"} )
       => one.value.gameId = "wordle"
    /\ IsGame("wordle") =>
          IF Fold(GuessOf(one.value)) = "x"
          THEN /\ one.value.won = FALSE
               /\ one.value.numericScore = Num(0)
          ELSE /\ one.value.won = TRUE
               /\ ~one.value.numericScore.nan
               /\ one.value.numericScore.val >= 5

\* The Wordle texts that the parser has to reject: no keyword followed by
\* white space, no puzzle number, no score, a guess outside 1..6 and X, a
\* denominator other than 6.
MustRejectWordle(f) ==
    \/ f.kw \notin {"Wordle", "WORDLE", "wordle"}
    \/ f.sep1 = ""
    \/ f.num \in {"", "abc"}
    \/ f.score \in {"", "0/6", "7/6", "3/5", "3/60"}

\* C4: a text that lacks the keyword followed by white space, the puzzle
\* number or the score, or whose guess is outside 1..6 and X, or whose
\* denominator is not 6, is never parsed as a wordle result.
C4_WordleRejection ==
    (fixture.kind = "wordle" /\ OneReturned /\ MustRejectWordle(fixture))
        => one.value.gameId # "wordle"

\* The integer that the digits of a token form once every comma is removed.
IsDigit(c) == c \in Digits
AllDigitsValue(token) ==
    LET ds == SelectSeq(token, IsDigit) IN DecimalValue(ds, Len(ds), 0)

\* C5: the puzzleNumber of a Wordle result is the integer formed by the
\* digits of the puzzle token with every comma removed.
C5_PuzzleNumber ==
    (fixture.kind = "wordle" /\ IsGame("wordle")
        /\ \E i \in DOMAIN Spell(fixture.num) : IsDigit(Spell(fixture.num)[i]))
        => one.value.puzzleNumber = Num(AllDigitsValue(Spell(fixture.num)))

\* C6: parseShareText returns the result of the first parser, in
\* registration order, whose pattern matches: a text with a Wordle block
\* and a Connections block gives the wordle result, whichever comes first
\* in the text; a text with Connections blocks only gives the connections
\* result; a text with no block gives null.
C6_FirstMatchWins ==
    /\ (fixture.kind = "multi" /\ OneReturned) =>
          one.value.gameId =
             (IF \E i \in DOMAIN fixture.blocks : fixture.blocks[i] = "W"
              THEN "wordle"
              ELSE IF fixture.blocks # <<>> THEN "connections" ELSE "none")
    /\ (OneReturned /\ arg.type = "string") =>
          one.value.gameId =
             (IF Test(WordleRegex, arg.chars, TRUE) THEN "wordle"
              ELSE IF Test(ConnectionsRegex, arg.chars, TRUE) THEN "connections"
              ELSE IF Test(StrandsRegex, arg.chars, TRUE) THEN "strands"
              ELSE IF Test(MiniRegex, arg.chars, TRUE) THEN "mini"
              ELSE "none")

C6_Witness ==
    /\ fixture.kind = "multi"
    /\ fixture.blocks = <<"W", "C">>
    /\ IsGame("wordle")

BlockGame(b) == IF b = "W" THEN "wordle" ELSE "connections"

\* The header of a Wordle fixture is well formed.
GoodWordle(f) ==
    /\ f.kw \in {"Wordle", "WORDLE", "wordle"}
    /\ f.sep1 # "" /\ f.sep2 # ""
    /\ f.num \in {"1", "123", "1,234", "12,345", "999999", "999,999"}
    /\ f.score \in {"1/6", "2/6", "3/6", "4/6", "5/6", "6/6", "X/6", "4/6*"}

\* The header of a Connections fixture is well formed.
GoodConnections(f) ==
    /\ f.kw \in {"Connections", "CONNECTIONS", "connections"}
    /\ f.gap # ""

\* C7: parseMultipleGames returns one result for every game block of the
\* text, in the order of the blocks in the text: two for a Wordle block and
\* a Connections block, in their order in the text, one for a text with a
\* single block, none for a text without a block.
C7_ParseAll ==
    AllReturned =>
        /\ fixture.kind = "multi" =>
              /\ Len(all.value) = Len(fixture.blocks)
              /\ \A i \in DOMAIN fixture.blocks :
                    all.value[i].gameId = BlockGame(fixture.blocks[i])
        /\ (fixture.kind = "wordle" /\ GoodWordle(fixture)) =>
              /\ Len(all.value) = 1
              /\ all.value[1].gameId = "wordle"
        /\ (fixture.kind = "connections" /\ GoodConnections(fixture)) =>
              /\ Len(all.value) = 1
              /\ all.value[1].gameId = "connections"
        /\ fixture.kind = "odd" => all.value = <<>>

C7_Witness ==
    /\ fixture.kind = "multi"
    /\ fixture.blocks = <<"C", "W">>
    /\ AllReturned
    /\ Len(all.value) = 2
    /\ all.value[1].gameId = "connections"

\* The number of rows of a grid whose kind satisfies a test.
CountRows(rows, P(_)) == Cardinality({i \in DOMAIN rows : P(rows[i])})
IsCleanKind(k) == k \in CleanKinds
IsFourKind(k) == Len(RowColours(k)) = 4

C9_ConnectionsOutcome ==
    (fixture.kind = "connections" /\ GoodConnections(fixture) /\ OneReturned) =>
        /\ one.value.gameId = "connections"
        /\ one.value.won <=> CountRows(fixture.rows, IsCleanKind) >= 4

C9_Witness ==
    /\ fixture.kind = "connections"
    /\ fixture.rows = <<"M1", "M1", "M1", "Y">>
    /\ IsGame("connections")
    /\ one.value.won = FALSE

\* The rows of a grid that are not clean and come before the fourth clean
\* row.
RECURSIVE MistakeRows(_, _)
MistakeRows(rows, clean) ==
    IF rows = <<>> \/ clean >= 4 THEN 0
    ELSE IF IsCleanKind(Head(rows)) THEN MistakeRows(Tail(rows), clean + 1)
    ELSE (IF IsFourKind(Head(rows)) THEN 1 ELSE 0)
         + MistakeRows(Tail(rows), clean)

\* C10: meta.mistakes is the number of rows that are not clean and come
\* before completion, and meta.perfect is true exactly when the game is won
\* with no mistake; a game that is not solved is never perfect.
C10_MistakesPerfect ==
    (fixture.kind = "connections" /\ IsGame("connections")) =>
        /\ one.value.meta.mistakes = MistakeRows(fixture.rows, 0)
        /\ one.value.meta.perfect = isPerfect(one.value.meta.mistakes, one.value.won)


\* The well-formed Strands keywords.
GoodStrands(f) == f.kw \in {"Strands", "STRANDS", "strands"}

\* C11: a text with the keyword strands, in any case, followed by a puzzle
\* number with or without # parses to a strands result with that puzzle
\* number, meta.hints the number of light bulbs of the text, and
\* meta.perfect true exactly when there is no light bulb.
C11_StrandsHints ==
    (fixture.kind = "strands" /\ GoodStrands(fixture) /\ OneReturned) =>
        /\ one.value.gameId = "strands"
        /\ one.value.puzzleNumber = Num(AllDigitsValue(Spell(fixture.num)))
        /\ one.value.meta.hints = fixture.hints
        /\ one.value.meta.perfect <=> (fixture.hints = 0)

C11_Witness ==
    /\ fixture.kind = "strands"
    /\ fixture.kw = "STRANDS"
    /\ fixture.hash = ""
    /\ fixture.hints = 1
    /\ IsGame("strands")
    /\ one.value.puzzleNumber = Num(890)
    /\ one.value.meta.hints = 1

\* The Strands score of h hints, as the claim words it.
StrandsScoreOf(h) ==
    IF h = 0 THEN 30 ELSE IF 20 - 4 * h > 5 THEN 20 - 4 * h ELSE 5

\* C12: the numericScore of a strands result with h hints is 30 for h = 0
\* and max(20 - 4h, 5) for h >= 1: 16 for one hint, 12 for two, never
\* below 5, never larger than the score of a smaller hint count, and 30
\* for h = 0 only.
C12_StrandsScore ==
    (fixture.kind = "strands" /\ IsGame("strands")) =>
        LET h == fixture.hints
            n == one.value.numericScore
        IN  /\ n = Num(StrandsScoreOf(h))
            /\ n.val >= 5
            /\ (n.val = 30) <=> (h = 0)
            /\ (h = 1) => (n.val = 16)
            /\ (h = 2) => (n.val = 12)
            /\ \A k \in 0..MaxHints :
                  /\ strandsNumericScore(k) = Num(StrandsScoreOf(k))
                  /\ (k < h) => (strandsNumericScore(k).val >= n.val)

C12_Witness ==
    /\ fixture.kind = "strands"
    /\ fixture.hints = 5
    /\ IsGame("strands")
    /\ one.value.numericScore = Num(5)

\* The Mini score of s seconds, as the claim words it.
MiniScoreOf(s) ==
    IF 35 - (s \div 10) > 5 THEN 35 - (s \div 10) ELSE 5

\* The total of the seconds of a Mini fixture.
TotalOf(f) == f.min * 60 + f.sec

\* C13: the numericScore of a mini result of s seconds is
\* max(35 - floor(s / 10), 5): between 5 and 35, never larger than the
\* score of a shorter time, and 5 exactly from 300 seconds on.
C13_MiniScore ==
    (fixture.kind = "mini" /\ IsGame("mini")) =>
        LET s == TotalOf(fixture)
            n == one.value.numericScore
        IN  /\ n = Num(MiniScoreOf(s))
            /\ n.val >= 5 /\ n.val <= 35
            /\ (n.val = 5) <=> (s >= 300)
            /\ \A t \in 0..MaxSeconds :
                  /\ miniNumericScore(t) = Num(MiniScoreOf(t))
                  /\ (miniNumericScore(t).val = 5) <=> (t >= 300)
                  /\ (t < s) => (miniNumericScore(t).val >= n.val)

C13_Witness ==
    /\ fixture.kind = "mini"
    /\ fixture.min = 4 /\ fixture.sec = 59
    /\ IsGame("mini")
    /\ one.value.numericScore = Num(6)

GuessTokens == {"1", "2", "3", "4", "5", "6", "X", "x"}

\* C16 as stated: within one game, no two different score inputs (guess
\* tokens, hint counts, totals of seconds) receive the same numericScore.
C16_Injective ==
    /\ IsGame("wordle") =>
          \A g \in GuessTokens :
              (g # GuessOf(one.value))
                  => (wordleNumericScore(<<g>>) # one.value.numericScore)
    /\ IsGame("strands") =>
          \A k \in 0..MaxHints :
              (k # one.value.meta.hints)
                  => (strandsNumericScore(k) # one.value.numericScore)
    /\ IsGame("mini") =>
          \A t \in 0..MaxSeconds :
              (t # one.value.meta.seconds.val)
                  => (miniNumericScore(t) # one.value.numericScore)

\* The ten-second band of a time, the bands from 300 seconds on taken as
\* one.
Band(s) == IF s >= 300 THEN 30 ELSE s \div 10

\* C16, amended: two different Wordle guess tokens never receive the same
\* numericScore; two different Strands hint counts receive the same
\* numericScore exactly when both are 4 or more (the floor 5); two
\* different Mini times receive the same numericScore exactly when they
\* lie in the same ten-second band or are both 300 seconds or more.
C16_ScoreClasses ==
    /\ IsGame("wordle") =>
          \A g \in GuessTokens :
              (g # GuessOf(one.value))
                  => (wordleNumericScore(<<g>>) # one.value.numericScore)
    /\ IsGame("strands") =>
          LET h == one.value.meta.hints
          IN  \A k \in 0..MaxHints :
                  (strandsNumericScore(k) = one.value.numericScore)
                      <=> (k = h \/ (k >= 4 /\ h >= 4))
    /\ IsGame("mini") =>
          LET s == one.value.meta.seconds.val
          IN  \A t \in 0..MaxSeconds :
                  (miniNumericScore(t) = one.value.numericScore)
                      <=> (Band(t) = Band(s))

C16_Witness ==
    /\ fixture.kind = "strands"
    /\ fixture.hints = 5
    /\ IsGame("strands")
    /\ strandsNumericScore(4) = one.value.numericScore

\* A result has a puzzle number that is a non-negative integer.
HasPuzzleNumber(r) ==
    /\ "puzzleNumber" \in DOMAIN r
    /\ ~r.puzzleNumber.nan
    /\ r.puzzleNumber.val >= 0

\* C17: every result that parseShareText returns and every result of the
\* list of parseMultipleGames, of every game, has a puzzleNumber that is a
\* non-negative integer.
C17_NoPartialResults ==
    /\ (OneReturned /\ one.value.gameId # "none") => HasPuzzleNumber(one.value)
    /\ AllReturned =>
          \A i \in DOMAIN all.value : HasPuzzleNumber(all.value[i])

\* The keyword of a game as a pattern: /wordle/i, /connections/i, /strands/i
KeywordRegex(id) ==
    CASE id = "wordle" ->
            << One({"w"}), One({"o"}), One({"r"}), One({"d"}), One({"l"}),
               One({"e"}) >>
      [] id = "connections" ->
            << One({"c"}), One({"o"}), One({"n"}), One({"n"}), One({"e"}),
               One({"c"}), One({"t"}), One({"i"}), One({"o"}), One({"n"}),
               One({"s"}) >>
      [] id = "strands" ->
            << One({"s"}), One({"t"}), One({"r"}), One({"a"}), One({"n"}),
               One({"d"}), One({"s"}) >>

AnchoredGames == {"wordle", "connections", "strands"}

\* C18: a result of the game wordle, connections or strands is returned
\* only for a text that holds the keyword of that game; a bare score, a
\* bare #123, a row of squares and light bulbs alone give none of the
\* three, and prose with the word Wordle but without a puzzle number and a
\* score is not a wordle result.
C18_KeywordAnchor ==
    /\ (OneReturned /\ one.value.gameId \in AnchoredGames) =>
          Test(KeywordRegex(one.value.gameId), arg.chars, TRUE)
    /\ AllReturned =>
          \A i \in DOMAIN all.value :
              (all.value[i].gameId \in AnchoredGames) =>
                  Test(KeywordRegex(all.value[i].gameId), arg.chars, TRUE)
    /\ (fixture.kind = "odd" /\ OneReturned) =>
          one.value.gameId \notin AnchoredGames

C18_Witness ==
    /\ fixture.kind = "odd"
    /\ fixture.what = "hints"
    /\ OneReturned
    /\ one.value = Null

\* The header of a Wordle fixture alone: Wordle <number> <g>/6
HeaderOf(f) ==
    Spell("Wordle") \o <<" ">> \o Spell(f.num) \o <<" ">>
    \o (IF f.score = "4/6*" THEN Spell("4/6") ELSE Spell(f.score))

\* C19: white space and blank lines around a valid Wordle header, spaces
\* and no-break spaces between its tokens, any case of the keyword, a
\* trailing *, a grid, CRLF line ends, hashtags, emoji, Han characters, a
\* zero-width space and markup after the score leave every field of the
\* result as it is for the header alone.
C19_NoiseInvariance ==
    (fixture.kind = "wordle" /\ GoodWordle(fixture) /\ OneReturned) =>
        /\ one.value.gameId = "wordle"
        /\ one.value = wordleParse(Str(HeaderOf(fixture))).value

C19_Witness ==
    /\ fixture.kind = "wordle"
    /\ fixture.sep1 = "nbsp"
    /\ fixture.suf = " emoji"
    /\ fixture.score = "4/6*"
    /\ IsGame("wordle")
    /\ one.value.numericScore = Num(15)

\* C20: Connections in any case, then Puzzle and a number, the two words
\* apart by a space, several spaces, a newline or a blank line, the number
\* with or without #, parse to a connections result with that puzzle
\* number.
C20_ConnectionsHeader ==
    (fixture.kind = "connections" /\ GoodConnections(fixture) /\ OneReturned) =>
        /\ one.value.gameId = "connections"
        /\ one.value.puzzleNumber = Num(AllDigitsValue(Spell(fixture.num)))

C20_Witness ==
    /\ fixture.kind = "connections"
    /\ fixture.kw = "CONNECTIONS"
    /\ fixture.gap = "LFLF"
    /\ fixture.hash = ""
    /\ IsGame("connections")
    /\ one.value.puzzleNumber = Num(123)


\* A field of a result, or its absence.
FieldOf(r, name) ==
    IF name \in DOMAIN r THEN [has |-> TRUE, v |-> r[name]] ELSE [has |-> FALSE]

\* The fields that the score may depend on.
ScoreKey(r) == <<r.gameId, FieldOf(r, "rawScore"), FieldOf(r, "meta")>>

\* The numericScore that the scoring functions give for the gameId, the
\* rawScore and the meta of a result alone.
ScoreFromKey(r) ==
    CASE r.gameId = "wordle" ->
            wordleNumericScore(SubSeq(r.rawScore, 1, Len(r.rawScore) - 2))
      [] r.gameId = "strands" -> strandsNumericScore(r.meta.hints)
      [] r.gameId = "mini" -> miniNumericScore(r.meta.seconds.val)

ScoredGames == {"wordle", "strands", "mini"}

MaxEvents == 4

ClearAfterClose == 5    \* setTimeout(..., 5000)
ClearAfterStop == 1     \* setTimeout(..., 1000)

\* [A-Z] under the i flag
IdLetters == {Fold(c) : c \in Letters}

\* (?:m?s)? as its three alternatives, in the order the engine tries them
UnitSuffixes == << <<One({"m"}), One({"s"})>>, <<One({"s"})>>, <<>> >>

\* \((\d+\.?\d*)(?:m?s)?\)
Duration(suffix) ==
    << One({"("}), Plus(Digits), Opt({"."}), Star(Digits) >> \o suffix
        \o << One({")"}) >>

\* ›\s+([A-Z]\d+):\s+  (the test id is the two groups together)
TitledId ==
    << One({"RAQUO"}), Plus(WhiteSpace), Cls(IdLetters, 1, 1, 1),
       Cls(Digits, 1, -1, 2), One({":"}), Plus(WhiteSpace) >>

\* /✓.*›\s+([A-Z]\d+):\s+(.+?)\s+\((\d+\.?\d*)(?:m?s)?\)/i
PassRegex(suffix) ==
    << One({"CHECK"}), Star(Dot) >> \o TitledId
        \o << Plus(Dot), Plus(WhiteSpace) >> \o Duration(suffix)

\* /✓.*([A-Z]\d+).*\((\d+\.?\d*)(?:m?s)?\)/i
PassRegexLoose(suffix) ==
    << One({"CHECK"}), Star(Dot), Cls(IdLetters, 1, 1, 1),
       Cls(Digits, 1, -1, 2), Star(Dot) >> \o Duration(suffix)

\* /✘.*›\s+([A-Z]\d+):\s+(.+?)\s+\((\d+\.?\d*)(?:m?s)?\)/i
FailRegex(suffix) ==
    << One({"CROSS"}), Star(Dot) >> \o TitledId
        \o << Plus(Dot), Plus(WhiteSpace) >> \o Duration(suffix)

\* /[✘✗×].*([A-Z]\d+)/i
FailRegexLoose ==
    << One({"CROSS", "BALLOT", "TIMES"}), Star(Dot), Cls(IdLetters, 1, 1, 1),
       Cls(Digits, 1, -1, 2) >>

\* /-.*›\s+([A-Z]\d+):\s+(.+)/i
SkipRegex == << One({"-"}), Star(Dot) >> \o TitledId \o << Plus(Dot) >>

\* line.match(pattern) of a pattern with alternatives: the leftmost match,
\* and among the matches of one start the first alternative.
ExecAny(pats, text) ==
    LET rs  == [k \in 1..Len(pats) |-> Exec(pats[k], text, TRUE)]
        oks == {k \in 1..Len(pats) : rs[k].ok}
    IN  IF oks = {} THEN Fail
        ELSE rs[CHOOSE k \in oks : \A j \in oks :
                     \/ rs[k].start < rs[j].start
                     \/ (rs[k].start = rs[j].start /\ k <= j)]

OrElse(a, b) == IF a.ok THEN a ELSE b

passMatchOf(line) ==
    OrElse(ExecAny([k \in 1..3 |-> PassRegex(UnitSuffixes[k])], line),
           ExecAny([k \in 1..3 |-> PassRegexLoose(UnitSuffixes[k])], line))

failMatchOf(line) ==
    OrElse(ExecAny([k \in 1..3 |-> FailRegex(UnitSuffixes[k])], line),
           Exec(FailRegexLoose, line, TRUE))

skipMatchOf(line) == Exec(SkipRegex, line, TRUE)

\* The result objects that one line of the output makes, in the order of
\* the three if statements of the loop.
lineResults(line) ==
    LET passMatch == passMatchOf(line)
        failMatch == failMatchOf(line)
        skipMatch == skipMatchOf(line)
        result(m, status) ==
            [testId |-> Group(line, m, 1) \o Group(line, m, 2),
             status |-> status]
    IN  (IF passMatch.ok THEN << result(passMatch, "pass") >> ELSE << >>)
        \o (IF failMatch.ok /\ ~passMatch.ok
            THEN << result(failMatch, "fail") >> ELSE << >>)
        \o (IF skipMatch.ok THEN << result(skipMatch, "skip") >> ELSE << >>)

\* for (const line of lines): the results of all the lines of a chunk
RECURSIVE chunkResults(_)
chunkResults(lines) ==
    IF lines = << >> THEN << >>
    ELSE lineResults(Head(lines)) \o chunkResults(Tail(lines))

Count(seq, status) ==
    Cardinality({k \in DOMAIN seq : seq[k].status = status})

\* currentRun.results.push(result); currentRun.passed++ (failed++, skipped++)
pushResults(run, results) ==
    [run EXCEPT !.results = @ \o results,
                !.passed  = @ + Count(results, "pass"),
                !.failed  = @ + Count(results, "fail"),
                !.skipped = @ + Count(results, "skip")]

\* Lines of the reporter:  "✓ › A1: t (1s)",  "✓ a-b › A1: t (1s)",
\* "✘ › A2: t (1s)",  "- › A3: t",  "Run"
PassLine ==
    <<"CHECK", " ", "RAQUO", " ", "A", "1", ":", " ", "t", " ",
      "(", "1", "s", ")">>
HyphenLine ==
    <<"CHECK", " ", "a", "-", "b", " ", "RAQUO", " ", "A", "1", ":", " ", "t",
      " ", "(", "1", "s", ")">>
FailLine ==
    <<"CROSS", " ", "RAQUO", " ", "A", "2", ":", " ", "t", " ",
      "(", "1", "s", ")">>
SkipLine == <<"-", " ", "RAQUO", " ", "A", "3", ":", " ", "t">>
NoiseLine == <<"R", "u", "n">>

\* The chunks that the data event of stdout delivers.
OutputChunks ==
    {PassLine, HyphenLine, FailLine, SkipLine, NoiseLine,
     PassLine \o <<"\n">> \o FailLine}

\* What the data handler makes of each chunk: the number of its lines and
\* the results of the loop over them.
ChunkTable ==
    [chunk \in OutputChunks |->
        [lines |-> Len(split(chunk)), results |-> chunkResults(split(chunk))]]

\* An event of the stream: its type and the run that is its data (for
\* test-complete, the run that was current when it was written).
Event(type, run) == [type |-> type, run |-> run.id, status |-> run.status]

\* broadcast(event): written to every client of sseClients.  The history
\* keeps the events from the last run-started on.
Broadcast(events) ==
    /\ sent' = IF events[1].type = "run-started" THEN events
               ELSE sent \o events
    /\ inbox' = IF sseClients # {} THEN inbox \o events ELSE inbox

\* The record of the handler that runs in this step.
Handler(kind, proc, code, lines, added, threw) ==
    [kind |-> kind, proc |-> proc, cur |-> currentRun.id,
     status |-> currentRun.status, code |-> code,
     lines |-> lines, added |-> added, threw |-> threw]

\* The record of the handler of a request, with the code of its response.
Request(kind, code) == Handler(kind, 0, code, 0, 0, FALSE)

\* An uncaught TypeError (a property of null is read) in a listener ends
\* the server.
Crash == serverUp' = FALSE

\* app.post('/api/run-tests') without the guard on currentRun
PostRunTestsUnguarded ==
    /\ serverUp
    /\ used < MaxEvents
    /\ LET run == [id |-> nextRunId + 1, status |-> "running",
                   results |-> << >>,
                   passed |-> 0, failed |-> 0, skipped |-> 0]
       IN  /\ currentRun' = run
           /\ Broadcast(<< Event("run-started", run) >>)
           /\ playwright' = playwright \cup {run.id}
    /\ nextRunId' = nextRunId + 1
    /\ used' = used + 1
    /\ last' = Request("run-tests", 200)
    /\ UNCHANGED <<sseClients, timers, serverUp>>

\* app.post('/api/run-tests'): the 409 guard, the new run, the broadcast of
\* run-started, the response and the spawn of the Playwright process
PostRunTests ==
    /\ serverUp
    /\ IF currentRun # NoRun
       THEN /\ last' = Request("run-tests", 409)
            /\ UNCHANGED <<currentRun, sseClients, playwright, timers,
                           serverUp, nextRunId, inbox, sent, used>>
       ELSE /\ used < MaxEvents
            /\ LET run == [id |-> nextRunId + 1, status |-> "running",
                           results |-> << >>,
                           passed |-> 0, failed |-> 0, skipped |-> 0]
               IN  /\ currentRun' = run
                   /\ Broadcast(<< Event("run-started", run) >>)
                   /\ playwright' = playwright \cup {run.id}
            /\ nextRunId' = nextRunId + 1
            /\ used' = used + 1
            /\ last' = Request("run-tests", 200)
            /\ UNCHANGED <<sseClients, timers, serverUp>>

\* app.post('/api/stop-tests'): 400 without a run; else the pkill, the
\* status 'stopped', the broadcast of run-stopped and the timer of 1 s
PostStopTests ==
    /\ serverUp
    /\ IF currentRun = NoRun
       THEN UNCHANGED <<currentRun, sseClients, playwright, timers,
                       serverUp, nextRunId, inbox, sent, last, used>>
       ELSE /\ used < MaxEvents
            /\ LET run == [currentRun EXCEPT !.status = "stopped"]
               IN  /\ currentRun' = run
                   /\ Broadcast(<< Event("run-stopped", run) >>)
            /\ timers' = timers \cup
                   {[left |-> ClearAfterStop, run |-> currentRun.id]}
            /\ used' = used + 1
            /\ UNCHANGED <<sseClients, playwright, serverUp, nextRunId,
                           last>>

\* playwright.stdout.on('data') of the process of run p
Stdout(p, chunk) ==
    /\ serverUp
    /\ p \in playwright
    /\ used < MaxEvents
    /\ used' = used + 1
    /\ LET lines   == ChunkTable[chunk].lines
           results == ChunkTable[chunk].results
       IN  IF results = << >>
           THEN /\ last' = Handler("stdout", p, 0, lines, 0, FALSE)
                /\ UNCHANGED <<currentRun, serverUp, inbox, sent>>
           ELSE IF currentRun = NoRun
           THEN /\ Crash
                /\ last' = Handler("stdout", p, 0, lines, 0, TRUE)
                /\ UNCHANGED <<currentRun, inbox, sent>>
           ELSE /\ currentRun' = pushResults(currentRun, results)
                /\ Broadcast([k \in DOMAIN results |->
                                 Event("test-complete", currentRun)])
                /\ last' = Handler("stdout", p, 0, lines,
                                   Len(results), FALSE)
                /\ UNCHANGED serverUp
    /\ UNCHANGED <<sseClients, playwright, timers, nextRunId>>

\* playwright.on('close') of the process of run p with the exit code, but
\* without the setTimeout that clears the run
CloseNoClear(p, code) ==
    /\ serverUp
    /\ p \in playwright
    /\ playwright' = playwright \ {p}
    /\ IF currentRun = NoRun
       THEN /\ \E ends \in BOOLEAN : serverUp' = ~ends
            /\ last' = Handler("close", p, code, 0, 0, TRUE)
            /\ UNCHANGED <<currentRun, timers, inbox, sent>>
       ELSE /\ LET run == [currentRun EXCEPT
                              !.status = IF code = 0 THEN "completed"
                                         ELSE "failed"]
               IN  /\ currentRun' = run
                   /\ Broadcast(<< Event("run-complete", run) >>)
            /\ last' = Handler("close", p, code, 0, 0, FALSE)
            /\ UNCHANGED <<serverUp, timers>>
    /\ UNCHANGED <<sseClients, nextRunId, used>>

\* playwright.on('close') of the process of run p with the exit code.  The
\* handler is an async function: the TypeError of a null currentRun is an
\* unhandled rejection, which ends the process or is only reported,
\* depending on the version of Node.
Close(p, code) ==
    /\ serverUp
    /\ p \in playwright
    /\ playwright' = playwright \ {p}
    /\ IF currentRun = NoRun
       THEN /\ \E ends \in BOOLEAN : serverUp' = ~ends
            /\ last' = Handler("close", p, code, 0, 0, TRUE)
            /\ UNCHANGED <<currentRun, timers, inbox, sent>>
       ELSE /\ LET run == [currentRun EXCEPT
                              !.status = IF code = 0 THEN "completed"
                                         ELSE "failed"]
               IN  /\ currentRun' = run
                   /\ Broadcast(<< Event("run-complete", run) >>)
            /\ timers' = timers \cup
                   {[left |-> ClearAfterClose, run |-> currentRun.id]}
            /\ last' = Handler("close", p, code, 0, 0, FALSE)
            /\ UNCHANGED serverUp
    /\ UNCHANGED <<sseClients, nextRunId, used>>

\* The callback of a setTimeout whose delay has passed: currentRun = null
ClearRun(t) ==
    /\ serverUp
    /\ t \in timers
    /\ t.left = 0
    /\ currentRun' = NoRun
    /\ timers' = timers \ {t}
    /\ last' = Handler("timer", t.run, 0, 0, 0, FALSE)
    /\ UNCHANGED <<sseClients, playwright, serverUp, nextRunId, inbox, sent,
                   used>>

\* One second passes: no callback is due, every timer is a second nearer.
Tick ==
    /\ serverUp
    /\ timers # {}
    /\ \A t \in timers : t.left > 0
    /\ timers' = {[t EXCEPT !.left = @ - 1] : t \in timers}
    /\ UNCHANGED <<currentRun, sseClients, playwright, serverUp, nextRunId,
                   inbox, sent, last, used>>

\* app.get('/api/status'): the running field of the response
statusRunning == currentRun # NoRun


\* enableButtons(enabled): the disabled attributes that it sets
enableButtons(enabled, state) ==
    LET canRun == enabled /\ state.connected /\ ~state.running
    IN  [run |-> ~canRun, stop |-> ~state.running]

\* handleServerEvent(event): the switch on event.type
handleServerEvent(event) ==
    CASE event.type = "run-started" ->
            /\ playwrightState' = [playwrightState EXCEPT !.running = TRUE]
            /\ UNCHANGED disabled
      [] event.type \in {"run-complete", "run-stopped"} ->
            /\ playwrightState' = [playwrightState EXCEPT !.running = FALSE]
            /\ disabled' = enableButtons(TRUE, playwrightState')
      [] OTHER -> UNCHANGED <<playwrightState, disabled>>

ParserIdle ==
    /\ fixture = [kind |-> "none"]
    /\ arg = << >>
    /\ one = Idle
    /\ prev = Idle
    /\ all = Idle

page == <<playwrightState, disabled>>

\* POST /api/run-tests of another client than the page
RunTests ==
    /\ PostRunTests
    /\ UNCHANGED page
    /\ UNCHANGED vars

\* POST /api/stop-tests of another client than the page
StopTests ==
    /\ PostStopTests
    /\ UNCHANGED page
    /\ UNCHANGED vars

StdoutData ==
    /\ \E p \in playwright, chunk \in OutputChunks : Stdout(p, chunk)
    /\ UNCHANGED page
    /\ UNCHANGED vars

ProcessClose ==
    /\ \E p \in playwright, code \in {0, 1} : Close(p, code)
    /\ UNCHANGED page
    /\ UNCHANGED vars

TimerSet == [left : 0..ClearAfterClose, run : 1..MaxEvents]

ClearTimer ==
    /\ \E t \in TimerSet : ClearRun(t)
    /\ UNCHANGED page
    /\ UNCHANGED vars

Second ==
    /\ Tick
    /\ UNCHANGED page
    /\ UNCHANGED vars

\* connectToServer and its onopen, with app.get('/api/events') of the
\* server: the client is added and the status of a current run written
Connect ==
    /\ serverUp
    /\ ~playwrightState.connected
    /\ used < MaxEvents
    /\ used' = used + 1
    /\ sseClients' = {"page"}
    /\ inbox' = IF currentRun # NoRun
                THEN << Event("status", currentRun) >> ELSE << >>
    /\ playwrightState' = [playwrightState EXCEPT !.connected = TRUE]
    /\ disabled' = enableButtons(TRUE, playwrightState')
    /\ UNCHANGED <<currentRun, playwright, timers, serverUp, nextRunId, sent,
                   last>>
    /\ UNCHANGED vars

\* eventSource.onerror, with req.on('close') of the server
Disconnect ==
    /\ playwrightState.connected
    /\ sseClients' = {}
    /\ inbox' = << >>
    /\ playwrightState' = [playwrightState EXCEPT !.connected = FALSE]
    /\ disabled' = enableButtons(FALSE, playwrightState')
    /\ UNCHANGED <<currentRun, playwright, timers, serverUp, nextRunId, sent,
                   last, used>>
    /\ UNCHANGED vars

\* eventSource.onmessage on the next event of the stream
OnMessage ==
    /\ inbox # << >>
    /\ handleServerEvent(Head(inbox))
    /\ inbox' = Tail(inbox)
    /\ UNCHANGED <<currentRun, sseClients, playwright, timers, serverUp,
                   nextRunId, sent, last, used>>
    /\ UNCHANGED vars

\* A click on an enabled Run button: runTests with its two checks, the
\* request, and enableButtons(true) when the response is not ok
RunClick ==
    /\ ~disabled.run
    /\ playwrightState.connected
    /\ ~playwrightState.running
    /\ PostRunTests
    /\ disabled' = IF currentRun # NoRun
                   THEN enableButtons(TRUE, playwrightState)
                   ELSE enableButtons(FALSE, playwrightState)
    /\ UNCHANGED playwrightState
    /\ UNCHANGED vars

\* A click on an enabled Stop button: stopTests
StopClick ==
    /\ ~disabled.stop
    /\ PostStopTests
    /\ UNCHANGED page
    /\ UNCHANGED vars

ServerInit == ParserIdle /\ ServerStart

ServerNext ==
    \/ RunTests
    \/ StopTests
    \/ StdoutData
    \/ ProcessClose
    \/ ClearTimer
    \/ Second
    \/ Connect
    \/ Disconnect
    \/ OnMessage
    \/ RunClick
    \/ StopClick

allvars == <<vars, svars>>

ServerSpec == ServerInit /\ [][ServerNext]_allvars

\* The event loop of Node runs the callback of every timer that is due, and
\* time passes.
FairServerSpec ==
    /\ ServerSpec
    /\ WF_allvars(Second)
    /\ WF_allvars(ClearTimer)


\* ------------------------------------------------------------------
\* Properties of the server and of the page
\* ------------------------------------------------------------------

Terminal == {"run-complete", "run-stopped"}

Types(events) == [k \in DOMAIN events |-> events[k].type]

CountType(events, types) ==
    Cardinality({k \in DOMAIN events : events[k].type \in types})

\* The step is a POST /api/run-tests.
IsRunTests ==
    /\ last'.kind = "run-tests"
    /\ (last' # last \/ nextRunId' # nextRunId)

\* C23: a POST /api/run-tests while currentRun is not null is answered
\* 409, spawns no process, broadcasts nothing and leaves currentRun as it
\* is; while currentRun is null it makes a run with status 'running' and
\* zero counters, broadcasts run-started and spawns exactly one process.
C23_RunGuard ==
    [][IsRunTests =>
        IF currentRun # NoRun
        THEN /\ last'.code = 409
             /\ playwright' = playwright
             /\ sent' = sent
             /\ inbox' = inbox
             /\ currentRun' = currentRun
        ELSE /\ last'.code = 200
             /\ currentRun'.id \notin {0, currentRun.id}
             /\ currentRun'.status = "running"
             /\ currentRun'.results = << >>
             /\ <<currentRun'.passed, currentRun'.failed,
                  currentRun'.skipped>> = <<0, 0, 0>>
             /\ sent' = << Event("run-started", currentRun') >>
             /\ playwright \subseteq playwright'
             /\ Cardinality(playwright' \ playwright) = 1]_allvars

C23_Witness ==
    /\ last.kind = "run-tests"
    /\ last.code = 409
    /\ currentRun.id = 1
    /\ currentRun.status = "running"
    /\ playwright = {1}
    /\ Types(sent) = << "run-started" >>

\* C24: at most one spawned Playwright process is alive at any time.
C24_MutualExclusion == Cardinality(playwright) <= 1

\* C25: when the data handler of stdout or the close handler of a process
\* runs, currentRun is the run of the request that spawned the process;
\* the timer of one run never clears currentRun while a later run is
\* running.
C25_HandlerSafety ==
    /\ (last.kind \in {"stdout", "close"}) => (last.cur = last.proc)
    /\ (last.kind = "timer") =>
           ~(last.cur > last.proc /\ last.status = "running")

\* C26: after the close of a process or a stop, currentRun is in the end
\* null again: GET /api/status reports running = false.
C26_Availability ==
    (currentRun.status \in {"completed", "failed", "stopped"})
        ~> (~statusRunning)

C26_Witness ==
    /\ last.kind = "timer"
    /\ last.status \in {"completed", "failed"}
    /\ last.cur = last.proc
    /\ ~statusRunning
    /\ serverUp
    /\ playwright = {}

\* C27: after run-stopped neither a test-complete nor a run-complete is
\* broadcast and the status of the run stays 'stopped'; a run that has
\* ended was given exactly one terminal broadcast.
C27_StopIsFinal ==
    /\ \A i, j \in DOMAIN sent :
           (i < j /\ sent[i].type = "run-stopped") =>
               sent[j].type \notin {"test-complete", "run-complete"}
    /\ (currentRun # NoRun /\ CountType(sent, {"run-stopped"}) > 0) =>
           currentRun.status = "stopped"
    /\ (currentRun = NoRun /\ sent # << >>) => CountType(sent, Terminal) = 1

\* C28: the three counters are the numbers of the results of each status,
\* every result was broadcast as one test-complete, and a line of the
\* output adds at most one result.
C28_Counters ==
    /\ (currentRun # NoRun) =>
           /\ currentRun.passed = Count(currentRun.results, "pass")
           /\ currentRun.failed = Count(currentRun.results, "fail")
           /\ currentRun.skipped = Count(currentRun.results, "skip")
           /\ CountType(sent, {"test-complete"}) = Len(currentRun.results)
    /\ (last.kind = "stdout") => (last.added <= last.lines)

\* C29: the Stop button is enabled exactly when playwrightState.running,
\* the Run buttons exactly when the page is connected and not running.
C29_Buttons ==
    /\ (~disabled.stop) <=> playwrightState.running
    /\ (~disabled.run) <=>
           (playwrightState.connected /\ ~playwrightState.running)

\* C30: a connected page that has handled every event has running exactly
\* when the server holds a run of status 'running', and a run request that
\* passes the checks of the page is not answered 409.
C30_Mirror ==
    (playwrightState.connected /\ inbox = << >> /\ serverUp) =>
        /\ playwrightState.running <=> (currentRun.status = "running")
        /\ (~playwrightState.running) => (currentRun = NoRun)

====
